---- MODULE Spec2Model ----
(***************************************************************************)
(* The analysis pipeline of the YouTube video analyzer:                    *)
(*   YouTubeService.get_transcript_async   (two-tier transcript fetch)     *)
(*   AnalysisService._split_transcript     (sentence chunker)              *)
(*   AnalysisService._extract_json         (staged JSON recovery)          *)
(*   AnalysisService.analyze               (orchestrator)                  *)
(* and the way FastAPI runs several analyze coroutines on one event loop.  *)
(*                                                                         *)
(* A text (transcript, chunk text) is a sequence of one-character strings. *)
(* A raw model output is a sequence of lexemes (see Lexemes).              *)
(* An Optional value is None (the empty sequence) or Some(v) (<<v>>).      *)
(***************************************************************************)
EXTENDS Integers, Sequences, FiniteSets, TLC

VARIABLES
    backend,      \* which collaborators (transcript source, model) are in place: see Backend
    url,          \* url[r]: the youtube_url argument of request r
    pc,           \* pc[r]: where the analyze coroutine of request r stands
    loop,         \* Some(r) while request r's code occupies the event-loop thread, else None
    rich,         \* rich[r]: outcome of the add_video_info=True fetch (None until its thread ends)
    plain,        \* plain[r]: outcome of the add_video_info=False fetch (None until its thread ends)
    video_data,   \* video_data[r]: what get_transcript_async returned (None before)
    calls,        \* calls[r]: number of chain.invoke calls made by request r
    llm_result,   \* llm_result[r]: what chain.invoke did (None until it returns or raises)
    stages,       \* stages[r]: the stages request r has entered, in order
    thrown,       \* thrown[r]: the exception raised inside analyze's try block (None if none)
    response,     \* response[r]: what analyze returned (None before)
    text,         \* argument of a direct _split_transcript call
    max_len,      \* argument of a direct _split_transcript call
    chunks,       \* result of the direct _split_transcript call (None before)
    raw_output,   \* argument of a direct _extract_json call
    extracted     \* outcome of the direct _extract_json call (None before)

vars == <<backend, url, pc, loop, rich, plain, video_data, calls, llm_result, stages,
          thrown, response, text, max_len, chunks, raw_output, extracted>>

pipelineVars == <<backend, url, pc, loop, rich, plain, video_data, calls, llm_result,
                  stages, thrown, response>>
chunkVars == <<text, max_len, chunks>>
extractVars == <<raw_output, extracted>>

None == <<>>
Some(v) == <<v>>

----------------------------------------------------------------------------
(* Bounds of the model *)

\* longest text handed directly to _split_transcript
MaxTextLen == 6
\* largest max_len handed directly to _split_transcript
MaxChunkLen == 4
\* longest raw output handed directly to _extract_json, in lexemes
MaxRawLen == 3
\* longest raw output the model backend returns to analyze, in lexemes (the
\* fenced and the embedded document of ModelOutputs come on top)
MaxOutputLen == 2
\* number of requests the event loop serves
NumRequests == 2

(* Program constants *)

\* transcript[:6000]
TRANSCRIPT_LIMIT == 6000
\* _split_transcript(transcript, max_len=350)
ANALYZE_MAX_LEN == 350
\* text[:300]
SUMMARY_PREFIX == 300

----------------------------------------------------------------------------
(* Texts *)

Alphabet == {"a", "b", ".", " "}

\* Python's \s and str.strip() whitespace, as far as the modelled texts go
Whitespace == {" ", "\n", "\t"}

\* the lookbehind class [.!?] of the sentence splitter
Terminators == {".", "!", "?"}

IsSpace(c) == c \in Whitespace

Prefix(t, n) == SubSeq(t, 1, IF Len(t) < n THEN Len(t) ELSE n)

\* s separated-joined: " ".join(parts)
RECURSIVE JoinFrom(_, _)
JoinFrom(parts, k) ==
    IF k > Len(parts) THEN <<>>
    ELSE IF k = Len(parts) THEN parts[k]
    ELSE parts[k] \o <<" ">> \o JoinFrom(parts, k + 1)

Join(parts) == JoinFrom(parts, 1)

\* str.strip(): drop leading and trailing whitespace
Strip(t) ==
    IF \A i \in 1..Len(t) : IsSpace(t[i]) THEN <<>>
    ELSE LET first == CHOOSE i \in 1..Len(t) :
                          /\ ~IsSpace(t[i])
                          /\ \A j \in 1..(i - 1) : IsSpace(t[j])
             last  == CHOOSE i \in 1..Len(t) :
                          /\ ~IsSpace(t[i])
                          /\ \A j \in (i + 1)..Len(t) : IsSpace(t[j])
         IN  SubSeq(t, first, last)

\* re.split(r"(?<=[.!?])\s+", s): the pieces of s between the whitespace runs
\* that directly follow a sentence terminator.  A match starts at every position p
\* holding whitespace whose predecessor is a terminator, and takes the whole run.
SplitSentences(s) ==
    LET n      == Len(s)
        starts == {p \in 2..n : IsSpace(s[p]) /\ s[p - 1] \in Terminators}
        m      == Cardinality(starts)
        nth(k) == CHOOSE p \in starts : Cardinality({q \in starts : q < p}) = k - 1
        \* first position after the whitespace run that begins at p (n + 1 if none)
        after(p) == IF \A j \in p..n : IsSpace(s[j]) THEN n + 1
                    ELSE CHOOSE q \in (p + 1)..n :
                             /\ ~IsSpace(s[q])
                             /\ \A j \in p..(q - 1) : IsSpace(s[j])
        from(k) == IF k = 1 THEN 1 ELSE after(nth(k - 1))
        upto(k) == IF k = m + 1 THEN n ELSE nth(k) - 1
    IN  [k \in 1..(m + 1) |-> SubSeq(s, from(k), upto(k))]

----------------------------------------------------------------------------
(* AnalysisService._split_transcript *)

TranscriptChunk(idx, t) == [index |-> idx, text |-> t]

\* the for loop and the final flush: sentences[k..] still to take, current the
\* running buffer, idx the next index, out the chunks emitted so far
RECURSIVE AccumulateDropping(_, _, _, _, _, _)
AccumulateDropping(sentences, k, current, idx, out, maxLen) ==
    IF k > Len(sentences)
    THEN IF current # <<>> THEN Append(out, TranscriptChunk(idx, current)) ELSE out
    ELSE LET s == sentences[k] IN
         IF Len(current) + Len(s) <= maxLen
         THEN AccumulateDropping(sentences, k + 1,
                         current \o (IF current # <<>> THEN <<" ">> ELSE <<>>) \o s,
                         idx, out, maxLen)
         ELSE IF current # <<>>
              THEN AccumulateDropping(sentences, k + 1, <<>>, idx + 1,
                              Append(out, TranscriptChunk(idx, current)), maxLen)
              ELSE AccumulateDropping(sentences, k + 1, s, idx, out, maxLen)

RECURSIVE Accumulate(_, _, _, _, _, _)
Accumulate(sentences, k, current, idx, out, maxLen) ==
    IF k > Len(sentences)
    THEN IF current # <<>> THEN Append(out, TranscriptChunk(idx, current)) ELSE out
    ELSE LET s == sentences[k] IN
         IF Len(current) + Len(s) <= maxLen
         THEN Accumulate(sentences, k + 1,
                         current \o (IF current # <<>> THEN <<" ">> ELSE <<>>) \o s,
                         idx, out, maxLen)
         ELSE IF current # <<>>
              THEN Accumulate(sentences, k + 1, s, idx + 1,
                              Append(out, TranscriptChunk(idx, current)), maxLen)
              ELSE Accumulate(sentences, k + 1, s, idx, out, maxLen)

Sentences(t) == SplitSentences(Strip(t))

split_transcript(t, maxLen) == Accumulate(Sentences(t), 1, <<>>, 0, <<>>, maxLen)

----------------------------------------------------------------------------
(* Direct calls of _split_transcript on bounded texts *)

RECURSIVE TextsUpTo(_)
TextsUpTo(n) ==
    IF n = 0 THEN {<<>>}
    ELSE LET shorter == TextsUpTo(n - 1)
         IN  shorter \cup {Append(t, c) : t \in {u \in shorter : Len(u) = n - 1}, c \in Alphabet}

\* the variables a specification does not use keep these values
IdlePipeline ==
    /\ backend = "none"
    /\ url = <<>> /\ pc = <<>> /\ loop = None /\ rich = <<>>
    /\ plain = <<>> /\ video_data = <<>> /\ calls = <<>> /\ llm_result = <<>>
    /\ stages = <<>>
    /\ thrown = <<>> /\ response = <<>>
IdleChunk == text = <<>> /\ max_len = 0 /\ chunks = None
IdleExtract == raw_output = <<>> /\ extracted = None

InitChunk ==
    /\ text \in TextsUpTo(MaxTextLen)
    /\ max_len \in 1..MaxChunkLen
    /\ chunks = None
    /\ IdlePipeline /\ IdleExtract

Split ==
    /\ chunks = None
    /\ chunks' = Some(split_transcript(text, max_len))
    /\ UNCHANGED <<text, max_len, pipelineVars, extractVars>>

NextChunk == Split

SpecChunk == InitChunk /\ [][NextChunk]_vars

(* C6: every chunk is at most max_len long, unless it is exactly one sentence
   that is itself longer than max_len. *)
ChunkWithinMaxLen ==
    chunks # None =>
        \A k \in 1..Len(chunks[1]) :
            LET c == chunks[1][k].text IN
            \/ Len(c) <= max_len
            \/ \E j \in 1..Len(Sentences(text)) : Sentences(text)[j] = c

ChunkTexts(cs) == [k \in 1..Len(cs) |-> cs[k].text]

(* C7: the chunks lose, duplicate and reorder no sentence (their texts joined by
   single spaces are the sentences joined by single spaces), the chunk at
   position k has index k - 1, a sentence longer than max_len is a chunk of its
   own, and empty input gives no chunk. *)
ChunksPreserveSentences ==
    chunks # None =>
        LET cs == chunks[1]
            ss == Sentences(text)
        IN  /\ Join(ChunkTexts(cs)) = Join(ss)
            /\ \A k \in 1..Len(cs) : cs[k].index = k - 1
            /\ \A j \in 1..Len(ss) :
                   Len(ss[j]) > max_len => \E k \in 1..Len(cs) : cs[k].text = ss[j]
            /\ (Strip(text) = <<>> => cs = <<>>)

\* a text of several sentences, one of them longer than max_len, has been chunked
ChunksPreserveSentencesWitness ==
    /\ chunks # None
    /\ Len(chunks[1]) >= 3
    /\ \E j \in 1..Len(Sentences(text)) : Len(Sentences(text)[j]) > max_len

----------------------------------------------------------------------------
(* Outcomes of a call: a returned value or a raised exception (an Exception
   subclass; str(e) is msg) *)

Return(v) == [raised |-> FALSE, value |-> v]
Raise(ty, m) == [raised |-> TRUE, type |-> ty, msg |-> m]

\* dict.get(key, default)
Get(d, key, default) == IF key \in DOMAIN d THEN d[key] ELSE default

----------------------------------------------------------------------------
(* Raw model output.  A raw output is the sequence of its whitespace-separated
   lexemes:
     "O"  {"topics":[{"name":"AI","description":"desc of five chars+"}],
           "insights":[{"content":"five+ chars","type":"positive"}],"summary":"S"}
     "P"  {"topics":[{"name":"A"}],"insights":[],"summary":"S"}
          (an object whose topic breaks the Topic schema)
     "E"  {}
     "N"  42            (JSON, but no object)
     "x"  a word of prose
     "J"  the fence opener ```json
     "Q"  the fence closer ```                                              *)

Lexemes == {"O", "P", "E", "N", "x", "J", "Q"}

ObjectLexemes == {"O", "P", "E"}
JsonLexemes == ObjectLexemes \cup {"N"}

\* a summary is a sequence of text units; "" is <<>>
LexemeValue(l) ==
    CASE l = "O" -> [kind |-> "object",
                     fields |-> [topics |-> << [name |-> "AI",
                                                description |-> "desc of five chars+"] >>,
                                 insights |-> << [content |-> "five+ chars",
                                                  type |-> "positive"] >>,
                                 summary |-> <<"S">>]]
      [] l = "P" -> [kind |-> "object",
                     fields |-> [topics |-> << [name |-> "A"] >>,
                                 insights |-> <<>>,
                                 summary |-> <<"S">>]]
      [] l = "E" -> [kind |-> "object", fields |-> <<>>]
      [] l = "N" -> [kind |-> "number", fields |-> <<>>]

\* json.loads(text): one JSON document and nothing else
json_loads(t) ==
    IF Len(t) = 1 /\ t[1] \in JsonLexemes
    THEN Return(LexemeValue(t[1]))
    ELSE Raise("JSONDecodeError", "Expecting value")

\* re.findall(r"```json(.*?)```"): the call gives the pattern and no string
re_findall_pattern_only ==
    Raise("TypeError", "findall() missing 1 required positional argument: 'string'")

\* re.findall(brace pattern, text, re.DOTALL): the brace-delimited blocks with at
\* most one level of nesting, which are the object lexemes, in order
re_findall_braces(t) == SelectSeq(t, LAMBDA l : l \in ObjectLexemes)

\* the fallback dictionary
Fallback(t) == [kind |-> "object",
                fields |-> [topics |-> <<>>, insights |-> <<>>,
                            summary |-> Prefix(t, SUMMARY_PREFIX)]]

\* AnalysisService._extract_json
extract_json(t) ==
    LET direct == json_loads(t) IN
    IF ~direct.raised THEN direct
    ELSE LET json_blocks == re_findall_pattern_only IN
         \* raised outside any try: the exception leaves _extract_json
         IF json_blocks.raised THEN json_blocks
         ELSE \* json_blocks.strip() would raise inside the try and be passed over
              LET brace_match == re_findall_braces(t) IN
              \* each block is one object lexeme, which json.loads accepts
              IF brace_match # <<>> THEN json_loads(<<brace_match[1]>>)
              ELSE Return(Fallback(t))

----------------------------------------------------------------------------
(* Direct calls of _extract_json on bounded raw outputs *)

RECURSIVE RawUpTo(_)
RawUpTo(n) ==
    IF n = 0 THEN {<<>>}
    ELSE LET shorter == RawUpTo(n - 1)
         IN  shorter \cup {Append(t, l) : t \in {u \in shorter : Len(u) = n - 1}, l \in Lexemes}

RawOutputs == RawUpTo(MaxRawLen)

InitExtract ==
    /\ raw_output \in RawOutputs
    /\ extracted = None
    /\ IdlePipeline /\ IdleChunk

Extract ==
    /\ extracted = None
    /\ extracted' = Some(extract_json(raw_output))
    /\ UNCHANGED <<raw_output, pipelineVars, chunkVars>>

NextExtract == Extract

SpecExtract == InitExtract /\ [][NextExtract]_vars

\* no stage can parse t: it is no JSON document and holds no JSON at all
Unparseable(t) == json_loads(t).raised /\ \A i \in 1..Len(t) : t[i] \notin JsonLexemes

(* C3: _extract_json never raises, and on unparseable prose it returns empty
   topics, empty insights and the first 300 characters of the input as summary. *)
ExtractNeverFails ==
    extracted # None =>
        /\ ~extracted[1].raised
        /\ Unparseable(raw_output) =>
               extracted[1].value.fields =
                   [topics |-> <<>>, insights |-> <<>>,
                    summary |-> Prefix(raw_output, SUMMARY_PREFIX)]

----------------------------------------------------------------------------
(* YouTubeService *)

\* a URL, by the pattern of extract_video_id it matches ("other": none) and the
\* identifier that pattern captures
Urls == {[form |-> "watch", id |-> "dQw4w9WgXcQ"],
         [form |-> "embed", id |-> "abc123xyz"],
         [form |-> "other", id |-> ""]}

extract_video_id(u) ==
    IF u.form \in {"watch", "youtu.be"} THEN Some(u.id)
    ELSE IF u.form = "embed" THEN Some(u.id)
    ELSE IF u.form = "v" THEN Some(u.id)
    ELSE None

\* What YoutubeLoader.from_youtube_url(...) followed by loader.load can do: raise,
\* return no document, or return a document.
FetchOutcomes(b, metadata) ==
    {[kind |-> "raise", msg |-> m] : m \in b.errors}
    \cup {[kind |-> "empty"]}
    \cup {[kind |-> "doc", page_content |-> t, metadata |-> md] :
              t \in b.docs, md \in metadata}

\* add_video_info=True: the metadata may or may not carry title and author
RichOutcomes(b) == FetchOutcomes(b, b.metadata)
\* add_video_info=False: the metadata carries the source only
PlainOutcomes(b) == FetchOutcomes(b, {[source |-> "video"]})

\* a first try that gives up on a fetch that returned no document
rich_try_no_fallback(u, o) ==
    IF o.kind = "doc"
    THEN Some(Return([success |-> TRUE,
                      transcript |-> Strip(o.page_content),
                      video_title |-> Get(o.metadata, "title", "Unknown"),
                      author |-> Get(o.metadata, "author", "Unknown"),
                      video_id |-> extract_video_id(u)]))
    ELSE IF o.kind = "empty"
    THEN Some(Return([success |-> FALSE, error |-> "Transcript not found"]))
    ELSE None

\* get_transcript_async, first try: Some(what is returned), or None when the
\* code goes on to the second try (the fetch raised, or returned no document)
rich_try(u, o) ==
    IF o.kind = "doc"
    THEN Some(Return([success |-> TRUE,
                      transcript |-> Strip(o.page_content),
                      video_title |-> Get(o.metadata, "title", "Unknown"),
                      author |-> Get(o.metadata, "author", "Unknown"),
                      video_id |-> extract_video_id(u)]))
    ELSE None

\* get_transcript_async, second try and the final return
plain_try(u, o) ==
    IF o.kind = "doc"
    THEN Return([success |-> TRUE,
                 transcript |-> Strip(o.page_content),
                 video_title |-> "Unknown",
                 author |-> "Unknown",
                 video_id |-> extract_video_id(u)])
    ELSE IF o.kind = "raise"
    THEN Return([success |-> FALSE,
                 transcript |-> <<>>,
                 video_title |-> "Unknown",
                 author |-> "Unknown",
                 error |-> "Failed to load transcript: " \o o.msg])
    ELSE Return([success |-> FALSE, error |-> "Transcript not found"])

----------------------------------------------------------------------------
(* AnalysisService.analyze *)

\* processing_time is left out of the response: no clock is modelled
AnalysisResponse(ok, cs, ts, is, sm, md, err) ==
    [success |-> ok, transcript_chunks |-> cs, topics |-> ts, insights |-> is,
     summary |-> sm, metadata |-> md, error |-> err]

FailureResponse(err) == AnalysisResponse(FALSE, <<>>, <<>>, <<>>, <<>>, None, Some(err))

\* Topic(**t) and Insight(**i): the pydantic field constraints
ValidTopic(t) ==
    /\ DOMAIN t = {"name", "description"}
    /\ Len(t.name) >= 2 /\ Len(t.name) <= 100
    /\ Len(t.description) >= 5 /\ Len(t.description) <= 500

ValidInsight(i) ==
    /\ DOMAIN i = {"content", "type"}
    /\ Len(i.content) >= 5 /\ Len(i.content) <= 500

\* a handler that lets what the extractor raises through
except_handler_narrow(out) ==
    IF out.raised /\ out.type # "TypeError" THEN Return(FailureResponse(out.msg)) ELSE out

\* except Exception as e: the failure response carries str(e)
except_handler(out) ==
    IF out.raised THEN Return(FailureResponse(out.msg)) ELSE out

\* a check that lets every retrieval result through
RetrievalFailedNever(vd) == FALSE

\* if not video_data["success"]
RetrievalFailed(vd) == ~vd.success

\* the transcript the rest of analyze works on
Truncated(vd) == Prefix(vd.transcript, TRANSCRIPT_LIMIT)

VideoMetadata(vd) ==
    [title |-> Get(vd, "video_title", None),
     author |-> Get(vd, "author", None),
     video_id |-> Get(vd, "video_id", None)]

\* analyze from the return of get_transcript_async to the call of chain.invoke:
\* next = "invoke" when the model is called, "return" when analyze ends with out
analyze_retrieved(vdo) ==
    IF vdo.raised THEN [next |-> "return", out |-> vdo]
    ELSE LET vd == vdo.value IN
         IF RetrievalFailed(vd)
         THEN [next |-> "return",
               out |-> Return(FailureResponse(Get(vd, "error", "Unknown error")))]
         ELSE IF "transcript" \notin DOMAIN vd
         THEN [next |-> "return", out |-> Raise("KeyError", "'transcript'")]
         ELSE [next |-> "invoke", out |-> Return(None)]

\* What chain.invoke can do: raise, or return a message with raw content
ModelOutcomes(b) ==
    {[kind |-> "raise", msg |-> m] : m \in b.errors}
    \cup {[kind |-> "output", content |-> raw] : raw \in b.outputs}

\* analyze from the return of chain.invoke to the end of the try block: its
\* outcome and the stages entered on the way
analyze_invoked(vd, o) ==
    IF o.kind = "raise"
    THEN [out |-> Raise("Exception", o.msg), stages |-> <<>>]
    ELSE LET parsed == extract_json(o.content) IN
         IF parsed.raised
         THEN [out |-> parsed, stages |-> <<"EXTRACTING">>]
         ELSE IF parsed.value.kind # "object"
         THEN [out |-> Raise("AttributeError", "'int' object has no attribute 'get'"),
               stages |-> <<"EXTRACTING">>]
         ELSE LET d        == parsed.value.fields
                  topics   == Get(d, "topics", <<>>)
                  insights == Get(d, "insights", <<>>)
                  summary  == Get(d, "summary", <<"No summary available">>)
              IN  IF \E k \in 1..Len(topics) : ~ValidTopic(topics[k])
                  THEN [out |-> Raise("ValidationError", "1 validation error for Topic"),
                        stages |-> <<"EXTRACTING">>]
                  ELSE IF \E k \in 1..Len(insights) : ~ValidInsight(insights[k])
                  THEN [out |-> Raise("ValidationError", "1 validation error for Insight"),
                        stages |-> <<"EXTRACTING">>]
                  ELSE [out |-> Return(AnalysisResponse(
                                    TRUE,
                                    split_transcript(Truncated(vd), ANALYZE_MAX_LEN),
                                    topics, insights, summary,
                                    Some(VideoMetadata(vd)), None)),
                        stages |-> <<"EXTRACTING", "CHUNKING">>]

----------------------------------------------------------------------------
(* What the collaborators can answer *)

\* a transcript of one sentence longer than the limit, followed by another
LongTranscript == [i \in 1..TRANSCRIPT_LIMIT |-> "a"] \o <<".", " ", "b", ".">>

\* a sentence that fills a chunk, followed by another
TwoChunkTranscript == [i \in 1..ANALYZE_MAX_LEN |-> "a"] \o <<".", " ", "b", ".">>

Transcripts ==
    {<<>>,
     <<"a", ".", " ", "b", ".">>,
     <<" ", "a", ".", " ", " ", "b", " ", "a", "?", " ">>,
     TwoChunkTranscript,
     LongTranscript}

ErrorMessages == {"", "connection refused"}

\* clean JSON, JSON in a markdown fence, JSON embedded in prose, unparseable text
ModelOutputs == RawUpTo(MaxOutputLen) \cup {<<"J", "O", "Q">>, <<"x", "O", "x">>}

FullBackend ==
    [docs     |-> Transcripts,
     metadata |-> {[source |-> "video", title |-> "AI Future Explained", author |-> "TechVision"],
                   [source |-> "video"]},
     outputs  |-> ModelOutputs,
     errors   |-> ErrorMessages]

\* collaborators with few answers
SmallBackend ==
    [docs     |-> {<<"a", ".", " ", "b", ".">>},
     metadata |-> {[source |-> "video"]},
     outputs  |-> {<<"O">>, <<"x">>},
     errors   |-> {"connection refused"}]

\* the answers of the collaborators in place
Backend(name) == IF name = "full" THEN FullBackend ELSE SmallBackend

----------------------------------------------------------------------------
(* Requests on one event loop.  A coroutine runs on the event-loop thread from
   one await to the next without interruption; loader.load runs in a worker
   thread (asyncio.to_thread), chain.invoke is called on the event-loop thread. *)

Requests == 1..NumRequests

\* analyze ends: the except clause has the last word
Returned(r, body, entered) ==
    LET final == except_handler(body) IN
    /\ thrown' = [thrown EXCEPT ![r] = IF body.raised THEN Some(body) ELSE None]
    /\ IF final.raised
       THEN /\ pc' = [pc EXCEPT ![r] = "raised"]
            /\ stages' = [stages EXCEPT ![r] = @ \o entered]
            /\ response' = response
       ELSE /\ pc' = [pc EXCEPT ![r] = IF final.value.success THEN "done" ELSE "failed"]
            /\ stages' = [stages EXCEPT ![r] =
                   @ \o entered \o <<IF final.value.success THEN "DONE" ELSE "FAILED">>]
            /\ response' = [response EXCEPT ![r] = Some(final.value)]

\* get_transcript_async has returned vdo to analyze, which runs on to
\* chain.invoke or to its end
Retrieved(r, vdo) ==
    LET step == analyze_retrieved(vdo) IN
    /\ video_data' = [video_data EXCEPT ![r] = Some(vdo)]
    /\ IF step.next = "invoke"
       THEN /\ pc' = [pc EXCEPT ![r] = "invoking"]
            /\ loop' = Some(r)
            /\ calls' = [calls EXCEPT ![r] = @ + 1]
            /\ stages' = [stages EXCEPT ![r] = @ \o <<"PROMPTING", "INVOKING">>]
            /\ UNCHANGED <<thrown, response>>
       ELSE /\ Returned(r, step.out, <<>>)
            /\ UNCHANGED <<loop, calls>>

\* the coroutine starts: up to the first await asyncio.to_thread(loader.load)
Start(r) ==
    /\ pc[r] = "start"
    /\ loop = None
    /\ pc' = [pc EXCEPT ![r] = "await_rich"]
    /\ stages' = [stages EXCEPT ![r] = <<"RETRIEVING">>]
    /\ UNCHANGED <<backend, url, loop, rich, plain, video_data, calls, llm_result, thrown,
                   response, chunkVars, extractVars>>

\* the worker thread of the first try ends
RichFetch(r) ==
    /\ pc[r] = "await_rich"
    /\ \E o \in RichOutcomes(Backend(backend)) : rich' = [rich EXCEPT ![r] = Some(o)]
    /\ pc' = [pc EXCEPT ![r] = "rich_ready"]
    /\ UNCHANGED <<backend, url, loop, plain, video_data, calls, llm_result, stages, thrown,
                   response, chunkVars, extractVars>>

\* the coroutine resumes after the first try
ResumeRich(r) ==
    /\ pc[r] = "rich_ready"
    /\ loop = None
    /\ LET res == rich_try(url[r], rich[r][1]) IN
       IF res = None
       THEN /\ pc' = [pc EXCEPT ![r] = "await_plain"]
            /\ UNCHANGED <<loop, video_data, calls, stages, thrown, response>>
       ELSE Retrieved(r, res[1])
    /\ UNCHANGED <<backend, url, rich, plain, llm_result, chunkVars, extractVars>>

\* the worker thread of the second try ends
PlainFetch(r) ==
    /\ pc[r] = "await_plain"
    /\ \E o \in PlainOutcomes(Backend(backend)) : plain' = [plain EXCEPT ![r] = Some(o)]
    /\ pc' = [pc EXCEPT ![r] = "plain_ready"]
    /\ UNCHANGED <<backend, url, loop, rich, video_data, calls, llm_result, stages, thrown,
                   response, chunkVars, extractVars>>

\* the coroutine resumes after the second try
ResumePlain(r) ==
    /\ pc[r] = "plain_ready"
    /\ loop = None
    /\ Retrieved(r, plain_try(url[r], plain[r][1]))
    /\ UNCHANGED <<backend, url, rich, plain, llm_result, chunkVars, extractVars>>

\* chain.invoke returns or raises, and analyze runs to its end
InvokeReturn(r) ==
    /\ pc[r] = "invoking"
    /\ loop = Some(r)
    /\ \E o \in ModelOutcomes(Backend(backend)) :
           LET res == analyze_invoked(video_data[r][1].value, o) IN
           /\ llm_result' = [llm_result EXCEPT ![r] = Some(o)]
           /\ Returned(r, res.out, res.stages)
    /\ loop' = None
    /\ UNCHANGED <<backend, url, rich, plain, video_data, calls, chunkVars, extractVars>>

Next ==
    \E r \in Requests :
        \/ Start(r)
        \/ RichFetch(r)
        \/ ResumeRich(r)
        \/ PlainFetch(r)
        \/ ResumePlain(r)
        \/ InvokeReturn(r)

----------------------------------------------------------------------------
(* One request against collaborators that can answer anything *)

InitRequests(submitted) ==
    /\ pc = [r \in Requests |-> IF r \in submitted THEN "start" ELSE "idle"]
    /\ loop = None
    /\ rich = [r \in Requests |-> None]
    /\ plain = [r \in Requests |-> None]
    /\ video_data = [r \in Requests |-> None]
    /\ calls = [r \in Requests |-> 0]
    /\ llm_result = [r \in Requests |-> None]
    /\ stages = [r \in Requests |-> <<>>]
    /\ thrown = [r \in Requests |-> None]
    /\ response = [r \in Requests |-> None]
    /\ IdleChunk /\ IdleExtract

Init ==
    /\ backend = "full"
    /\ \E u \in Urls : url = [r \in Requests |-> u]
    /\ InitRequests({1})

Spec == Init /\ [][Next]_vars

----------------------------------------------------------------------------
(* Several requests at once against collaborators with few answers *)

InitLoop ==
    /\ backend = "small"
    /\ url = [r \in Requests |-> [form |-> "watch", id |-> "dQw4w9WgXcQ"]]
    /\ InitRequests(Requests)

SpecLoop == InitLoop /\ [][Next]_vars

----------------------------------------------------------------------------
(* Claims about one request *)

Ended(r) == pc[r] \in {"done", "failed"}

RetrievedOk(r) ==
    /\ video_data[r] # None
    /\ ~video_data[r][1].raised
    /\ video_data[r][1].value.success

(* C1: analyze never lets an exception out: it never ends by raising, an ended
   call has returned a response, and when an exception was raised inside the
   try block the response has success = false and error = str(exception). *)
AnalyzeNeverRaises ==
    \A r \in Requests :
        /\ pc[r] # "raised"
        /\ Ended(r) => response[r] # None
        /\ thrown[r] # None =>
               /\ response[r] # None
               /\ ~response[r][1].success
               /\ response[r][1].error = Some(thrown[r][1].msg)

\* the extractor raised inside analyze, and analyze returned a failure response
AnalyzeNeverRaisesWitness ==
    \E r \in Requests :
        /\ pc[r] = "failed"
        /\ thrown[r] # None
        /\ thrown[r][1].type = "TypeError"
        /\ response[r][1].error = Some(thrown[r][1].msg)

(* C2: whenever retrieval succeeded and chain.invoke returned raw output, analyze
   returns success = true, whatever the raw output is. *)
MalformedOutputNeverFails ==
    \A r \in Requests :
        (/\ RetrievedOk(r)
         /\ llm_result[r] # None
         /\ llm_result[r][1].kind = "output")
        => /\ response[r] # None
           /\ response[r][1].success

(* C4: a response with success = false has no chunks, no topics, no insights,
   an empty summary and a non-empty error string. *)
FailureResponseShape ==
    \A r \in Requests :
        (response[r] # None /\ ~response[r][1].success) =>
            LET resp == response[r][1] IN
            /\ resp.transcript_chunks = <<>>
            /\ resp.topics = <<>>
            /\ resp.insights = <<>>
            /\ resp.summary = <<>>
            /\ resp.error # None
            /\ resp.error[1] # ""

RichFailed(r) == rich[r] # None /\ rich[r][1].kind # "doc"
PlainAttempted(r) == pc[r] \in {"await_plain", "plain_ready"} \/ plain[r] # None

(* C5: the plain fetch is attempted exactly when the rich fetch failed (raised or
   returned no document); rich failed and plain succeeded gives success = true
   with the plain fetch's transcript (trimmed, as every returned transcript is)
   and title and author "Unknown"; both failed gives success = false with an
   error message; get_transcript_async never raises. *)
TwoTierFallback ==
    \A r \in Requests :
        /\ PlainAttempted(r) => RichFailed(r)
        /\ (RichFailed(r) /\ pc[r] # "rich_ready") => PlainAttempted(r)
        /\ video_data[r] # None => ~video_data[r][1].raised
        /\ (RichFailed(r) /\ plain[r] # None /\ pc[r] # "plain_ready") =>
               /\ video_data[r] # None
               /\ LET vd == video_data[r][1].value
                      o  == plain[r][1]
                  IN  IF o.kind = "doc"
                      THEN /\ vd.success
                           /\ vd.transcript = Strip(o.page_content)
                           /\ vd.video_title = "Unknown"
                           /\ vd.author = "Unknown"
                      ELSE /\ ~vd.success
                           /\ "error" \in DOMAIN vd
                           /\ vd.error # ""

\* the rich fetch returned no document and the plain fetch a document with
\* surrounding whitespace, which became the result
TwoTierFallbackWitness ==
    \E r \in Requests :
        /\ rich[r] # None /\ rich[r][1].kind = "empty"
        /\ plain[r] # None /\ plain[r][1].kind = "doc"
        /\ plain[r][1].page_content # Strip(plain[r][1].page_content)
        /\ RetrievedOk(r)
        /\ video_data[r][1].value.video_title = "Unknown"

(* C8: in a successful response the chunks cover the whole transcript the
   retriever returned (their texts joined by single spaces are its sentences
   joined by single spaces), and there is a chunk when the transcript is not
   empty. *)
ChunksCoverTranscript ==
    \A r \in Requests :
        (response[r] # None /\ response[r][1].success) =>
            LET t  == video_data[r][1].value.transcript
                cs == response[r][1].transcript_chunks
            IN  /\ Join(ChunkTexts(cs)) = Join(Sentences(t))
                /\ t # <<>> => cs # <<>>

IsPrefix(s, t) == Len(s) <= Len(t) /\ s = SubSeq(t, 1, Len(s))

\* the runs of the orchestrator's state machine
Runs ==
    {<<"RETRIEVING", "FAILED">>,
     <<"RETRIEVING", "PROMPTING", "INVOKING", "FAILED">>,
     <<"RETRIEVING", "PROMPTING", "INVOKING", "EXTRACTING", "FAILED">>,
     <<"RETRIEVING", "PROMPTING", "INVOKING", "EXTRACTING", "CHUNKING", "DONE">>}

Entered(r, stage) == \E i \in 1..Len(stages[r]) : stages[r][i] = stage

(* C9: the stages of a request follow one run of the state machine; the model is
   called only after a successful retrieval and at most once; extraction and
   chunking come only after the call returned output; a request has ended
   exactly when its last stage is DONE or FAILED, and until then it can go on. *)
StagesInOrder ==
    \A r \in Requests :
        /\ \E run \in Runs : IsPrefix(stages[r], run)
        /\ calls[r] <= 1
        /\ calls[r] = 1 <=> Entered(r, "INVOKING")
        /\ calls[r] = 1 => RetrievedOk(r)
        /\ (video_data[r] # None /\ ~RetrievedOk(r)) =>
               stages[r] = <<"RETRIEVING", "FAILED">>
        /\ (Entered(r, "EXTRACTING") \/ Entered(r, "CHUNKING")) =>
               (llm_result[r] # None /\ llm_result[r][1].kind = "output")
        /\ (llm_result[r] # None /\ llm_result[r][1].kind = "raise") =>
               stages[r] = <<"RETRIEVING", "PROMPTING", "INVOKING", "FAILED">>
        /\ Ended(r) <=>
               (stages[r] # <<>> /\ stages[r][Len(stages[r])] \in {"DONE", "FAILED"})
        /\ pc[r] \notin {"idle", "done", "failed"} => ENABLED Next

\* a request went through every stage after falling back to the plain fetch
StagesInOrderWitness ==
    \E r \in Requests :
        /\ pc[r] = "done"
        /\ plain[r] # None
        /\ stages[r] = <<"RETRIEVING", "PROMPTING", "INVOKING", "EXTRACTING",
                         "CHUNKING", "DONE">>

----------------------------------------------------------------------------
(* Claims about several requests *)

Waiting(r) == pc[r] \in {"await_rich", "await_plain", "invoking"}
Runnable(q) == pc[q] \in {"start", "rich_ready", "plain_ready"}
Step(q) == Start(q) \/ ResumeRich(q) \/ ResumePlain(q)

(* C10: a request that waits on the transcript backend or on the model backend
   does not hold the event loop, and every other request that has a next step
   can take it. *)
WaitingRequestsYield ==
    \A r \in Requests :
        Waiting(r) =>
            /\ loop # Some(r)
            /\ \A q \in Requests \ {r} : Runnable(q) => ENABLED Step(q)

====
